---- MODULE Spec2Model ----
(***************************************************************************)
(* Model of the two news fetchers of the repository:                       *)
(*   fetch_hacker_news  (src/news_getter/hacker_news.py)                   *)
(*   fetch_yahoo_news   (src/news_getter/yahoo_news/yahoo_news.py)         *)
(* One call is modelled from its entry to its return or raise.  Text is    *)
(* modelled as a sequence of one-character strings, so that strip, split,  *)
(* int, startswith and the substring test are computed, not assumed.       *)
(***************************************************************************)
EXTENDS Integers, Sequences, FiniteSets, TLC

VARIABLES fn, limit, pc, failure, doc, rows, idx, news_items, log, outcome, returned

vars == <<fn, limit, pc, failure, doc, rows, idx, news_items, log, outcome, returned>>

(***************************************************************************)
(* Bounds of the model.                                                    *)
(***************************************************************************)
MaxLimit == 2
MaxDocA == 2
MaxDocB == 3

\* limit=10 is what main() passes; limit=5 is the limit of the Source-B scenario.
MainLimit == 10
ScenarioLimits == {5, MainLimit}
ScenarioScores == <<5, 80, 12, 3, 40>>

Limits == (1..MaxLimit) \cup ScenarioLimits

(***************************************************************************)
(* Text helpers: str.startswith, the `in` substring test, str.strip,       *)
(* str.split()[0] and int().                                               *)
(***************************************************************************)
StartsWith(s, p) == Len(s) >= Len(p) /\ SubSeq(s, 1, Len(p)) = p

Contains(s, p) == \E i \in 1..(Len(s) - Len(p) + 1) : SubSeq(s, i, i + Len(p) - 1) = p

RECURSIVE LStrip(_)
LStrip(s) == IF s # <<>> /\ Head(s) = " " THEN LStrip(Tail(s)) ELSE s

RECURSIVE RStrip(_)
RStrip(s) == IF s # <<>> /\ s[Len(s)] = " " THEN RStrip(SubSeq(s, 1, Len(s) - 1)) ELSE s

Strip(s) == RStrip(LStrip(s))

RECURSIVE FirstToken(_)
FirstToken(s) ==
    IF s = <<>> \/ Head(s) = " " THEN <<>> ELSE <<Head(s)>> \o FirstToken(Tail(s))

DigitChars == <<"0", "1", "2", "3", "4", "5", "6", "7", "8", "9">>

IsDigit(c) == \E d \in 1..10 : DigitChars[d] = c

DigitVal(c) == (CHOOSE d \in 1..10 : DigitChars[d] = c) - 1

Unsigned(tok) == IF tok # <<>> /\ Head(tok) \in {"+", "-"} THEN Tail(tok) ELSE tok

IsIntLiteral(tok) ==
    /\ Unsigned(tok) # <<>>
    /\ \A i \in 1..Len(Unsigned(tok)) : IsDigit(Unsigned(tok)[i])

RECURSIVE DigitsValue(_)
DigitsValue(ds) ==
    IF ds = <<>> THEN 0
    ELSE 10 * DigitsValue(SubSeq(ds, 1, Len(ds) - 1)) + DigitVal(ds[Len(ds)])

IntValue(tok) ==
    IF Head(tok) = "-" THEN 0 - DigitsValue(Unsigned(tok)) ELSE DigitsValue(Unsigned(tok))


(***************************************************************************)
(* The fetch: requests.get / session.get followed by raise_for_status.     *)
(* A failure is an exception class of the HTTP client, described by the    *)
(* families it belongs to: conn is "isinstance of                          *)
(* requests.exceptions.ConnectionError", timeout is "isinstance of         *)
(* requests.exceptions.Timeout" (the request exceeded the timeout).        *)
(* ConnectTimeout derives from both.  HTTPError is what raise_for_status   *)
(* raises on a non-success status.                                         *)
(***************************************************************************)
NoFailure == [name |-> "none", conn |-> FALSE, timeout |-> FALSE]

TransportFailures ==
    { [name |-> "ConnectionError",  conn |-> TRUE,  timeout |-> FALSE],
      [name |-> "SSLError",         conn |-> TRUE,  timeout |-> FALSE],
      [name |-> "ProxyError",       conn |-> TRUE,  timeout |-> FALSE],
      [name |-> "ConnectTimeout",   conn |-> TRUE,  timeout |-> TRUE],
      [name |-> "ReadTimeout",      conn |-> FALSE, timeout |-> TRUE],
      [name |-> "Timeout",          conn |-> FALSE, timeout |-> TRUE],
      [name |-> "HTTPError",        conn |-> FALSE, timeout |-> FALSE],
      [name |-> "TooManyRedirects", conn |-> FALSE, timeout |-> FALSE] }

\* The except chain, tried in source order: the first matching clause wins.
ClassifyTransport(f) ==
    IF f.conn THEN "ConnectionError"
    ELSE IF f.timeout THEN "TimeoutError"
    ELSE "ConnectionError"

(***************************************************************************)
(* Character data used by the code and by the documents.                   *)
(***************************************************************************)
Https == <<"h", "t", "t", "p", "s", ":", "/", "/">>

HttpPrefix == <<"h", "t", "t", "p">>

Slash == <<"/">>

ItemIdPrefix == <<"i", "t", "e", "m", "?", "i", "d", "=">>

HNOrigin ==
    Https \o <<"n", "e", "w", "s", ".", "y", "c", "o", "m", "b", "i", "n", "a", "t",
               "o", "r", ".", "c", "o", "m", "/">>

YahooOrigin ==
    Https \o <<"n", "e", "w", "s", ".", "y", "a", "h", "o", "o", ".", "c", "o", "m">>

NewsMarker == <<"/", "n", "e", "w", "s", "/">>

ArticlesMarker == <<"/", "a", "r", "t", "i", "c", "l", "e", "s", "/">>

\* The format of the score label: "123 points".
RECURSIVE Decimal(_)
Decimal(n) ==
    IF n < 10 THEN <<DigitChars[n + 1]>>
    ELSE Decimal(n \div 10) \o <<DigitChars[(n % 10) + 1]>>

ScoreLabel(n) == Decimal(n) \o <<" ", "p", "o", "i", "n", "t", "s">>

(***************************************************************************)
(* soup.find_all(..., limit=n): the first n matches in document order; a   *)
(* limit of 0 means no limit.                                              *)
(***************************************************************************)
\* A variant that ignores the limit.
FindAllUnlimited(matches, n) == matches

FindAll(matches, n) ==
    IF n = 0 \/ Len(matches) <= n THEN matches ELSE SubSeq(matches, 1, n)

\* A variant with a wider window.
StreamScanTriple(l) == l * 3

\* Source-B asks for limit * 2 containers.
StreamScan(l) == l * 2

(***************************************************************************)
(* The per-item try body of fetch_hacker_news.  Its result is one of       *)
(*   append (the record built), skip (a continue), raise (an exception).   *)
(* story.raises is an exception raised by the HTML library while the item  *)
(* is queried ("none" when it raises nothing).                             *)
(***************************************************************************)
Skip == [kind |-> "skip"]

Raise(e) == [kind |-> "raise", exc |-> e]

AbsolutizeHN(href) == IF StartsWith(href, ItemIdPrefix) THEN HNOrigin \o href ELSE href

\* A variant that swallows a bad number and keeps the default 0.
ParseScoreLenient(story) ==
    IF ~story.hasScore THEN [ok |-> TRUE, val |-> 0]
    ELSE LET score_text == Strip(story.scoreText)
         IN  IF score_text = <<>> THEN [ok |-> TRUE, val |-> 0]
             ELSE IF IsIntLiteral(FirstToken(score_text))
                  THEN [ok |-> TRUE, val |-> IntValue(FirstToken(score_text))]
                  ELSE [ok |-> TRUE, val |-> 0]

\* score = 0; if score_span: score = int(score_text.split()[0]) if score_text else 0
\* (ok is FALSE when int() raises ValueError)
ParseScore(story) ==
    IF ~story.hasScore THEN [ok |-> TRUE, val |-> 0]
    ELSE LET score_text == Strip(story.scoreText)
         IN  IF score_text = <<>> THEN [ok |-> TRUE, val |-> 0]
             ELSE IF IsIntLiteral(FirstToken(score_text))
                  THEN [ok |-> TRUE, val |-> IntValue(FirstToken(score_text))]
                  ELSE [ok |-> FALSE, val |-> 0]

StoryBody(story) ==
    IF story.raises # "none" THEN Raise(story.raises)
    ELSE IF ~story.titleline THEN Skip
    ELSE IF ~story.link THEN Skip
    ELSE IF ~story.sibling THEN Skip
    ELSE IF ~story.subtext THEN Skip
    ELSE IF ~ParseScore(story).ok THEN Raise("ValueError")
    ELSE [kind |-> "append",
          rec  |-> [title  |-> Strip(story.title),
                    url    |-> AbsolutizeHN(IF story.hasHref THEN story.href ELSE <<>>),
                    score  |-> ParseScore(story).val,
                    author |-> IF story.hasAuthor THEN story.author ELSE "unknown",
                    date   |-> IF story.age = "text" THEN story.ageText ELSE "unknown"]]

(***************************************************************************)
(* The per-item try body of fetch_yahoo_news.                              *)
(***************************************************************************)
\* A variant without the article filter.
IsArticleLinkAny(href) == TRUE

\* if '/news/' not in href and '/articles/' not in href: continue

IsArticleLink(href) == Contains(href, NewsMarker) \/ Contains(href, ArticlesMarker)

NormalizeYahoo(href) ==
    IF StartsWith(href, Slash) THEN [ok |-> TRUE, url |-> YahooOrigin \o href]
    ELSE IF ~StartsWith(href, HttpPrefix) THEN [ok |-> FALSE, url |-> href]
    ELSE [ok |-> TRUE, url |-> href]

StreamItemBody(item) ==
    IF item.raises # "none" THEN Raise(item.raises)
    ELSE IF ~item.title_elem THEN Skip
    ELSE IF ~item.link THEN Skip
    ELSE LET title == Strip(item.title)
             href  == IF item.hasHref THEN item.href ELSE <<>>
         IN  IF title = <<>> \/ href = <<>> THEN Skip
             ELSE IF ~NormalizeYahoo(href).ok THEN Skip
             ELSE IF ~IsArticleLink(NormalizeYahoo(href).url) THEN Skip
             ELSE [kind |-> "append",
                   rec  |-> [title  |-> title,
                             url    |-> NormalizeYahoo(href).url,
                             author |-> IF item.hasPublisher THEN item.publisher
                                        ELSE "Yahoo News",
                             date   |-> IF item.hasReadTime THEN item.readTime
                                        ELSE "recent"]]

(***************************************************************************)
(* except (AttributeError, ValueError, IndexError): continue               *)
(***************************************************************************)
\* A variant that forgets IndexError.
CaughtPerItemNoIndex == {"AttributeError", "ValueError"}

CaughtPerItem == {"AttributeError", "ValueError", "IndexError"}

\* A variant without the empty check.
NoItemsNever(items) == FALSE

\* if not news_items: raise ValueError(...)

NoItems(items) == items = <<>>

(***************************************************************************)
(* news_items.sort(key=lambda x: x['score'], reverse=True): a stable sort, *)
(* records of equal score keep their order.                                *)
(***************************************************************************)
RECURSIVE InsertByScore(_, _)
InsertByScore(rec, sorted) ==
    IF sorted = <<>> THEN <<rec>>
    ELSE IF sorted[Len(sorted)].score >= rec.score THEN Append(sorted, rec)
    ELSE Append(InsertByScore(rec, SubSeq(sorted, 1, Len(sorted) - 1)), sorted[Len(sorted)])

\* A variant that sorts the wrong way round.
RECURSIVE SortAscending(_)
SortAscending(items) ==
    IF items = <<>> THEN <<>>
    ELSE LET rest == SortAscending(Tail(items))
             lo   == SelectSeq(rest, LAMBDA r : r.score < Head(items).score)
             hi   == SelectSeq(rest, LAMBDA r : r.score >= Head(items).score)
         IN  lo \o <<Head(items)>> \o hi

RECURSIVE SortByScoreDesc(_)
SortByScoreDesc(items) ==
    IF items = <<>> THEN <<>>
    ELSE InsertByScore(items[Len(items)], SortByScoreDesc(SubSeq(items, 1, Len(items) - 1)))


(***************************************************************************)
(* The documents a fetch can return: sequences of item markers in document *)
(* order, each marker described by what the parser can read from it.       *)
(***************************************************************************)
SeqsUpTo(S, n) == UNION {[1..k -> S] : k \in 0..n}

ExternalUrl == Https \o <<"e", ".", "c", "/", "p">>

\* A front-page story: external link, "80 points", author and age present.
BaseStory ==
    [raises |-> "none", titleline |-> TRUE, link |-> TRUE, title |-> <<"A">>,
     hasHref |-> TRUE, href |-> ExternalUrl, sibling |-> TRUE, subtext |-> TRUE,
     hasScore |-> TRUE, scoreText |-> ScoreLabel(80),
     hasAuthor |-> TRUE, author |-> "pg", age |-> "text", ageText |-> "2 hours ago"]

Stories ==
    { BaseStory,
      \* an "Ask HN" story: its link is the discussion page, item?id=1
      [BaseStory EXCEPT !.title = <<"B">>, !.href = ItemIdPrefix \o <<"1">>,
                        !.scoreText = ScoreLabel(5)],
      \* a "from?site=" style relative link
      [BaseStory EXCEPT !.title = <<"C">>, !.href = <<"f", "?", "s">>,
                        !.scoreText = <<" ">> \o ScoreLabel(12) \o <<" ">>],
      \* an anchor without href
      [BaseStory EXCEPT !.title = <<"D">>, !.hasHref = FALSE, !.href = <<>>],
      \* an anchor whose text is blank
      [BaseStory EXCEPT !.title = <<" ">>],
      [BaseStory EXCEPT !.titleline = FALSE],
      [BaseStory EXCEPT !.link = FALSE],
      [BaseStory EXCEPT !.sibling = FALSE],
      [BaseStory EXCEPT !.subtext = FALSE],
      \* a job posting: no score, no author, an age without link
      [BaseStory EXCEPT !.title = <<"J">>, !.hasScore = FALSE, !.hasAuthor = FALSE,
                        !.age = "nolink"],
      \* an empty score label
      [BaseStory EXCEPT !.title = <<"E">>, !.scoreText = <<" ">>, !.age = "nospan"],
      \* a score label whose first token is no integer
      [BaseStory EXCEPT !.title = <<"N">>, !.scoreText = <<"n", "/", "a", " ", "p">>],
      [BaseStory EXCEPT !.raises = "AttributeError"],
      [BaseStory EXCEPT !.raises = "IndexError"],
      [BaseStory EXCEPT !.raises = "TypeError"] }

\* The stories of the sorting scenario: five valid markers, one per score.
ScoreStories ==
    {[BaseStory EXCEPT !.scoreText = ScoreLabel(ScenarioScores[i])] :
        i \in 1..Len(ScenarioScores)}

HNDocs(l) ==
    SeqsUpTo(Stories, MaxDocA)
        \cup (IF l = MainLimit THEN [1..Len(ScenarioScores) -> ScoreStories] ELSE {})

\* A stream item: a site-rooted article link, publisher and read time present.
BaseStreamItem ==
    [raises |-> "none", title_elem |-> TRUE, link |-> TRUE, title |-> <<"A">>,
     hasHref |-> TRUE, href |-> NewsMarker \o <<"a">>,
     hasPublisher |-> TRUE, publisher |-> "Reuters",
     hasReadTime |-> TRUE, readTime |-> "3 min read"]

StreamItems ==
    { BaseStreamItem,
      \* an absolute article link, no publisher and no read time
      [BaseStreamItem EXCEPT !.title = <<" ", "B">>,
                             !.href = Https \o <<"y", ".", "c">> \o ArticlesMarker \o <<"b">>,
                             !.hasPublisher = FALSE, !.hasReadTime = FALSE],
      \* an absolute link that is no article
      [BaseStreamItem EXCEPT !.title = <<"V">>,
                             !.href = Https \o <<"y", ".", "c", "/", "v">>],
      \* a site-rooted link that is no article
      [BaseStreamItem EXCEPT !.title = <<"R">>, !.href = <<"/", "r">>],
      \* a relative link, neither rooted nor absolute
      [BaseStreamItem EXCEPT !.title = <<"D">>,
                             !.href = <<"d">> \o NewsMarker \o <<"d">>],
      \* a relative link whose first path segment starts with "http"
      [BaseStreamItem EXCEPT !.title = <<"H">>,
                             !.href = HttpPrefix \o NewsMarker \o <<"h">>],
      [BaseStreamItem EXCEPT !.hasHref = FALSE, !.href = <<>>],
      [BaseStreamItem EXCEPT !.title = <<" ">>],
      [BaseStreamItem EXCEPT !.title_elem = FALSE],
      [BaseStreamItem EXCEPT !.link = FALSE],
      [BaseStreamItem EXCEPT !.raises = "AttributeError"],
      [BaseStreamItem EXCEPT !.raises = "TypeError"] }

YahooDocs == SeqsUpTo(StreamItems, MaxDocB)

(***************************************************************************)
(* The state machine of one call.                                          *)
(*   pc: idle -> fetch -> parse -> done, or fetch -> done on a failure.    *)
(*   log records, for each scanned marker, what the loop did with it.      *)
(***************************************************************************)
Init ==
    /\ fn = "none"
    /\ limit = 0
    /\ pc = "idle"
    /\ failure = NoFailure
    /\ doc = <<>>
    /\ rows = <<>>
    /\ idx = 1
    /\ news_items = <<>>
    /\ log = <<>>
    /\ outcome = "none"
    /\ returned = <<>>

CallHackerNews ==
    /\ pc = "idle"
    /\ \E l \in Limits : limit' = l
    /\ fn' = "hn"
    /\ pc' = "fetch"
    /\ UNCHANGED <<failure, doc, rows, idx, news_items, log, outcome, returned>>

CallYahooNews ==
    /\ pc = "idle"
    /\ \E l \in Limits : limit' = l
    /\ fn' = "yahoo"
    /\ pc' = "fetch"
    /\ UNCHANGED <<failure, doc, rows, idx, news_items, log, outcome, returned>>

\* The request raises: the except chain turns it into the call's error.
FetchFails ==
    /\ pc = "fetch"
    /\ \E f \in TransportFailures :
          /\ failure' = f
          /\ outcome' = ClassifyTransport(f)
    /\ pc' = "done"
    /\ UNCHANGED <<fn, limit, doc, rows, idx, news_items, log, returned>>

FetchHackerNews ==
    /\ pc = "fetch"
    /\ fn = "hn"
    /\ \E d \in HNDocs(limit) :
          /\ doc' = d
          /\ rows' = FindAll(d, limit)
    /\ pc' = "parse"
    /\ UNCHANGED <<fn, limit, failure, idx, news_items, log, outcome, returned>>

FetchYahooNews ==
    /\ pc = "fetch"
    /\ fn = "yahoo"
    /\ \E d \in YahooDocs :
          /\ doc' = d
          /\ rows' = FindAll(d, StreamScan(limit))
    /\ pc' = "parse"
    /\ UNCHANGED <<fn, limit, failure, idx, news_items, log, outcome, returned>>

\* One iteration of the for loop, with the per-item except clause and, for an
\* exception it does not catch, the outer except that wraps it in ValueError.
LoopStep(r) ==
    IF r.kind = "append"
    THEN /\ news_items' = Append(news_items, r.rec)
         /\ log' = Append(log, "appended")
         /\ idx' = idx + 1
         /\ UNCHANGED <<pc, outcome>>
    ELSE IF r.kind = "skip"
    THEN /\ log' = Append(log, "skipped")
         /\ idx' = idx + 1
         /\ UNCHANGED <<news_items, pc, outcome>>
    ELSE IF r.exc \in CaughtPerItem
    THEN /\ log' = Append(log, "caught")
         /\ idx' = idx + 1
         /\ UNCHANGED <<news_items, pc, outcome>>
    ELSE /\ log' = Append(log, "raised")
         /\ pc' = "done"
         /\ outcome' = "ValueError"
         /\ UNCHANGED <<news_items, idx>>

ParseStory ==
    /\ pc = "parse"
    /\ fn = "hn"
    /\ idx <= Len(rows)
    /\ LoopStep(StoryBody(rows[idx]))
    /\ UNCHANGED <<fn, limit, failure, doc, rows, returned>>

\* The loop is over: the empty check, the sort and the return.  The sort is in
\* place; news_items keeps the extraction order here so that the returned list
\* can be compared with what was extracted.
FinishHackerNews ==
    /\ pc = "parse"
    /\ fn = "hn"
    /\ idx > Len(rows)
    /\ IF NoItems(news_items)
       THEN outcome' = "ValueError" /\ returned' = returned
       ELSE outcome' = "ok" /\ returned' = SortByScoreDesc(news_items)
    /\ pc' = "done"
    /\ UNCHANGED <<fn, limit, failure, doc, rows, idx, news_items, log>>

\* if len(news_items) >= limit: break
CapReached(items, l) == Len(items) >= l

ParseStreamItem ==
    /\ pc = "parse"
    /\ fn = "yahoo"
    /\ idx <= Len(rows)
    /\ ~CapReached(news_items, limit)
    /\ LoopStep(StreamItemBody(rows[idx]))
    /\ UNCHANGED <<fn, limit, failure, doc, rows, returned>>

FinishYahooNews ==
    /\ pc = "parse"
    /\ fn = "yahoo"
    /\ idx > Len(rows) \/ CapReached(news_items, limit)
    /\ IF NoItems(news_items)
       THEN outcome' = "ValueError" /\ returned' = returned
       ELSE outcome' = "ok" /\ returned' = news_items
    /\ pc' = "done"
    /\ UNCHANGED <<fn, limit, failure, doc, rows, idx, news_items, log>>

Next ==
    \/ CallHackerNews
    \/ CallYahooNews
    \/ FetchFails
    \/ FetchHackerNews
    \/ FetchYahooNews
    \/ ParseStory
    \/ FinishHackerNews
    \/ ParseStreamItem
    \/ FinishYahooNews

Spec == Init /\ [][Next]_vars


(***************************************************************************)
(* Vocabulary of the properties.                                           *)
(***************************************************************************)
Done == pc = "done"

Fetched == failure = NoFailure

ReturnedList == Done /\ outcome = "ok"

Letters ==
    {"a", "b", "c", "d", "e", "f", "g", "h", "i", "j", "k", "l", "m",
     "n", "o", "p", "q", "r", "s", "t", "u", "v", "w", "x", "y", "z"}

\* An absolute URL starts with a scheme followed by "://".
IsAbsoluteUrl(u) ==
    \E i \in 2..(Len(u) - 2) :
        /\ SubSeq(u, i, i + 2) = <<":", "/", "/">>
        /\ \A j \in 1..(i - 1) : u[j] \in Letters

\* The record appended for the j-th scanned marker (when log[j] = "appended").
RecOf(j) == news_items[Cardinality({i \in 1..j : log[i] = "appended"})]

Occurrences(seq, x) == Cardinality({i \in 1..Len(seq) : seq[i] = x})

IsPermutation(a, b) ==
    /\ Len(a) = Len(b)
    /\ \A i \in 1..Len(a) : Occurrences(a, a[i]) = Occurrences(b, a[i])

Scores(items) == [i \in 1..Len(items) |-> items[i].score]

(***************************************************************************)
(* C1: for both fetchers and every limit >= 1, a list that is returned     *)
(* has at most limit records.                                              *)
(***************************************************************************)
C1_LengthAtMostLimit == ReturnedList => Len(returned) <= limit

\* Source-A returns a full list from a document with more markers than limit.
C1_Witness ==
    /\ ReturnedList
    /\ fn = "hn"
    /\ limit >= 1
    /\ Len(doc) > limit
    /\ Len(returned) = limit

(***************************************************************************)
(* C2: a transport failure in which the request timed out makes the call   *)
(* fail with TimeoutError, and a connection-level failure that did not     *)
(* time out makes it fail with ConnectionError; a timeout is never         *)
(* reported as ConnectionError.                                            *)
(***************************************************************************)
C2_TimeoutNeverConnectionError ==
    (Done /\ ~Fetched) =>
        /\ failure.timeout => outcome = "TimeoutError"
        /\ (failure.conn /\ ~failure.timeout) => outcome = "ConnectionError"

(***************************************************************************)
(* C3: every record of a returned list has an absolute url, in both        *)
(* pipelines.                                                              *)
(***************************************************************************)
C3_UrlsAbsolute ==
    ReturnedList => \A k \in 1..Len(returned) : IsAbsoluteUrl(returned[k].url)

(***************************************************************************)
(* C4: no record of a returned list has an empty title, in both pipelines. *)
(***************************************************************************)
C4_TitlesNonEmpty ==
    ReturnedList => \A k \in 1..Len(returned) : returned[k].title # <<>>

(***************************************************************************)
(* C5: a call whose fetch succeeded never returns an empty list; when no   *)
(* item was extracted it fails with ValueError, which is neither           *)
(* ConnectionError nor TimeoutError.                                       *)
(***************************************************************************)
C5_NoEmptyList ==
    (Done /\ Fetched) =>
        /\ outcome \in {"ok", "ValueError"}
        /\ outcome = "ok" => returned # <<>>
        /\ news_items = <<>> => (outcome = "ValueError" /\ returned = <<>>)

\* Source-B scans two markers, extracts nothing and fails with ValueError.
C5_Witness ==
    /\ Done
    /\ Fetched
    /\ fn = "yahoo"
    /\ Len(log) = 2
    /\ news_items = <<>>
    /\ outcome = "ValueError"

(***************************************************************************)
(* C6: fetch_hacker_news returns the extracted items sorted by score       *)
(* descending: scores are non-increasing, the list is a permutation of the *)
(* extracted items, and five valid markers with limit=10 give five records *)
(* (scores 5,80,12,3,40 come back as 80,40,12,5,3).                        *)
(***************************************************************************)
C6_SortedByScore ==
    (ReturnedList /\ fn = "hn") =>
        /\ \A k \in 1..(Len(returned) - 1) : returned[k].score >= returned[k + 1].score
        /\ IsPermutation(returned, news_items)
        /\ (limit = MainLimit /\ Len(doc) = Len(ScenarioScores)
              /\ \A j \in 1..Len(doc) : doc[j] \in ScoreStories)
             => Len(returned) = Len(ScenarioScores)
        /\ (limit = MainLimit /\ Len(doc) = Len(ScenarioScores)
              /\ \A j \in 1..Len(doc) : doc[j].scoreText = ScoreLabel(ScenarioScores[j]))
             => Scores(returned) = <<80, 40, 12, 5, 3>>

C6_Witness ==
    /\ ReturnedList
    /\ fn = "hn"
    /\ limit = MainLimit
    /\ Scores(news_items) = ScenarioScores
    /\ Scores(returned) = <<80, 40, 12, 5, 3>>

(***************************************************************************)
(* C7: every url returned by fetch_yahoo_news contains "/news/" or         *)
(* "/articles/"; a well-formed item whose absolute link contains neither   *)
(* is never included.                                                      *)
(***************************************************************************)
WellFormedNonArticle(item) ==
    /\ item.raises = "none" /\ item.title_elem /\ item.link /\ item.hasHref
    /\ Strip(item.title) # <<>>
    /\ StartsWith(item.href, Slash) \/ StartsWith(item.href, Https)
    /\ ~Contains(item.href, NewsMarker)
    /\ ~Contains(item.href, ArticlesMarker)

C7_ArticleLinksOnly ==
    fn = "yahoo" =>
        /\ \A k \in 1..Len(news_items) :
              \/ Contains(news_items[k].url, NewsMarker)
              \/ Contains(news_items[k].url, ArticlesMarker)
        /\ \A k \in 1..Len(returned) :
              \/ Contains(returned[k].url, NewsMarker)
              \/ Contains(returned[k].url, ArticlesMarker)
        /\ \A j \in 1..Len(log) : WellFormedNonArticle(rows[j]) => log[j] = "skipped"

C7_Witness ==
    /\ ReturnedList
    /\ fn = "yahoo"
    /\ \E j \in 1..Len(log) : WellFormedNonArticle(rows[j])
    /\ \E j \in 1..Len(log) : log[j] = "appended"

(***************************************************************************)
(* C8: in fetch_hacker_news, an item whose title, anchor and metadata cell *)
(* are present gets as score the leading number of its score label, and 0  *)
(* when the label is absent, empty or not a number; in all these cases the *)
(* item is included.  (The statement as claimed.)                          *)
(***************************************************************************)
ScoreRange == 0..100

Complete(story) ==
    /\ story.raises = "none"
    /\ story.titleline /\ story.link /\ story.sibling /\ story.subtext

LabelBlank(story) ==
    ~story.hasScore \/ \A i \in 1..Len(story.scoreText) : story.scoreText[i] = " "

\* The texts "0 ", "1 ", ... a label with a leading number starts with.
LeadingNumberText == [n \in ScoreRange |-> Decimal(n) \o <<" ">>]

NumberTexts == {LeadingNumberText[n] : n \in ScoreRange}

\* The label's first word, closed by one blank.
LeadText(story) ==
    LET t == LStrip(story.scoreText) \o <<" ">>
        k == CHOOSE i \in 1..Len(t) : t[i] = " " /\ \A j \in 1..(i - 1) : t[j] # " "
    IN  SubSeq(t, 1, k)

LabelNumeric(story) == story.hasScore /\ LeadText(story) \in NumberTexts

\* The record's score, written out, is the label's first word.
ScoreIsLabel(story, rec) ==
    rec.score \in ScoreRange /\ LeadingNumberText[rec.score] = LeadText(story)

C8_ScoreOrZeroAlwaysIncluded ==
    fn = "hn" =>
        \A j \in 1..Len(log) : Complete(rows[j]) =>
            /\ log[j] = "appended"
            /\ LabelNumeric(rows[j]) => ScoreIsLabel(rows[j], RecOf(j))
            /\ ~LabelNumeric(rows[j]) => RecOf(j).score = 0

(***************************************************************************)
(* C8 as amended: the score is the leading number of the label, and 0 when *)
(* the label is absent or empty, and the item is included; an item whose   *)
(* label starts with a token that is no integer is skipped, not included   *)
(* with score 0.                                                           *)
(***************************************************************************)
C8_ScoreOrSkipped ==
    fn = "hn" =>
        \A j \in 1..Len(log) : Complete(rows[j]) =>
            /\ LabelNumeric(rows[j]) =>
                  (log[j] = "appended" /\ ScoreIsLabel(rows[j], RecOf(j)))
            /\ LabelBlank(rows[j]) => (log[j] = "appended" /\ RecOf(j).score = 0)
            /\ (~LabelBlank(rows[j]) /\ ~LabelNumeric(rows[j])) => log[j] = "caught"

\* A job posting (no label) is included with score 0 and then an item with a
\* non-numeric label is skipped.
C8_Witness ==
    /\ fn = "hn"
    /\ Done
    /\ Len(log) = 2
    /\ Complete(rows[1]) /\ ~rows[1].hasScore
    /\ log[1] = "appended" /\ RecOf(1).score = 0
    /\ Complete(rows[2]) /\ ~LabelBlank(rows[2]) /\ ~LabelNumeric(rows[2])
    /\ log[2] = "caught"

(***************************************************************************)
(* C9: fetch_yahoo_news examines only the first 2 x limit containers,      *)
(* stops as soon as limit items are accepted, and returns the first        *)
(* min(limit, accepted in that window) accepted items in document order;   *)
(* three containers of which one lacks a title element, with limit=5,      *)
(* give the two other records in document order.                           *)
(***************************************************************************)
Prefix(seq, n) == [i \in 1..(IF Len(seq) < n THEN Len(seq) ELSE n) |-> seq[i]]

Accepted(item) == StreamItemBody(item).kind = "append"

RECURSIVE AcceptedRecords(_)
AcceptedRecords(items) ==
    IF items = <<>> THEN <<>>
    ELSE (IF Accepted(Head(items)) THEN <<StreamItemBody(Head(items)).rec>> ELSE <<>>)
             \o AcceptedRecords(Tail(items))

C9_WindowAndCap ==
    fn = "yahoo" =>
        /\ Len(log) <= 2 * limit
        /\ \A j \in 1..Len(log) : rows[j] = doc[j]
        /\ Len(news_items) <= limit
        /\ (Done /\ Len(news_items) = limit) => log[Len(log)] = "appended"
        /\ ReturnedList =>
              returned = Prefix(AcceptedRecords(Prefix(doc, 2 * limit)), limit)
        /\ (ReturnedList /\ limit = 5 /\ Len(doc) = 3
              /\ \E m \in 1..3 : /\ ~doc[m].title_elem
                                 /\ \A j \in (1..3) \ {m} : Accepted(doc[j]))
             => Len(returned) = 2

C9_Witness ==
    /\ ReturnedList
    /\ fn = "yahoo"
    /\ limit = 5
    /\ Len(doc) = 3
    /\ Accepted(doc[1]) /\ ~doc[2].title_elem /\ Accepted(doc[3])
    /\ doc[1] # doc[3]
    /\ returned = <<StreamItemBody(doc[1]).rec, StreamItemBody(doc[3]).rec>>

(***************************************************************************)
(* C10: any exception raised inside the per-item step only skips that      *)
(* item, so a call in which at least one scanned item is extracted always  *)
(* returns a list.  (The statement as claimed.)                            *)
(***************************************************************************)
C10_AnyFaultOnlySkips ==
    /\ \A j \in 1..Len(log) : log[j] # "raised"
    /\ (Done /\ Fetched /\ news_items # <<>>) => outcome = "ok"

(***************************************************************************)
(* C10 as amended: an AttributeError, ValueError or IndexError raised in   *)
(* the per-item step (bad numeric text included) only skips that item and  *)
(* the loop goes on; any other exception raised there ends the call with   *)
(* ValueError, even when items were already extracted.  A call fails with  *)
(* ValueError only when nothing was extracted or such an exception was     *)
(* raised; otherwise it returns a list.                                    *)
(***************************************************************************)
RaisesInStep(item) ==
    IF item.raises # "none" THEN item.raises
    ELSE IF fn = "hn" /\ Complete(item) /\ ~LabelBlank(item) /\ ~LabelNumeric(item)
         THEN "ValueError"
         ELSE "none"

C10_CaughtFaultsOnlySkip ==
    /\ \A j \in 1..Len(log) :
          /\ RaisesInStep(rows[j]) \in {"AttributeError", "ValueError", "IndexError"}
                => (log[j] = "caught" /\ (j = Len(log) /\ Done => idx > Len(rows)))
          /\ RaisesInStep(rows[j]) \notin {"none", "AttributeError", "ValueError", "IndexError"}
                => (log[j] = "raised" /\ j = Len(log) /\ Done /\ outcome = "ValueError")
          /\ RaisesInStep(rows[j]) = "none" => log[j] \in {"appended", "skipped"}
    /\ (Done /\ Fetched /\ outcome = "ValueError")
          => (news_items = <<>> \/ log[Len(log)] = "raised")
    /\ (Done /\ Fetched /\ news_items # <<>> /\ \A j \in 1..Len(log) : log[j] # "raised")
          => (outcome = "ok" /\ returned # <<>>)

\* An item is extracted, the next one raises a caught fault and is skipped,
\* the next one raises another exception: the call fails.
C10_Witness ==
    /\ Done
    /\ Fetched
    /\ Len(log) = 3
    /\ log = <<"appended", "caught", "raised">>
    /\ news_items # <<>>
    /\ outcome = "ValueError"

====
